---- MODULE Spec2Model ----
(***************************************************************************)
(* A model of pic_org (src/main.py): the image locator find_images, the    *)
(* date resolver and placer rename_image, and the command-line driver.     *)
(*                                                                         *)
(* Instants are pairs <<days since 1970-01-01, second of the day>>, both   *)
(* in UTC, compared lexicographically.  Strings that the program parses or *)
(* matches (file names, metadata values) are sequences of one-character    *)
(* strings.                                                                *)
(***************************************************************************)
EXTENDS Integers, Sequences, FiniteSets, TLC

(* ---------------------------------------------------------------- bounds *)

\* Number of directories of the source tree, the root (directory 0) included.
NumDirs == 3

\* Number of files of the source tree.
NumFiles == 2

\* Number of times the program is run over the same source tree.
MaxRuns == 2

\* Number of symbolic links of the source tree.
NumLinks == 1

Dirs == 0 .. (NumDirs - 1)

FileIds == 1 .. NumFiles

(* ------------------------------------------------------ calendar (datetime) *)

\* datetime.datetime.fromtimestamp(ts, tz=utc), for a whole number of seconds.
FromTimestamp(ts) == << ts \div 86400, ts % 86400 >>

\* The order of timezone-aware datetimes.
Before(a, b) == a[1] < b[1] \/ (a[1] = b[1] /\ a[2] < b[2])

\* max in place of min.
MinDate_Later(a, b) == IF Before(a, b) THEN b ELSE a

\* min(a, b) of Python: b only when it is strictly smaller.
MinDate(a, b) == IF Before(b, a) THEN b ELSE a

IsLeap(y) == (y % 4 = 0 /\ y % 100 # 0) \/ y % 400 = 0

DaysInMonth(y, m) ==
    IF m = 2 THEN (IF IsLeap(y) THEN 29 ELSE 28)
    ELSE IF m \in {4, 6, 9, 11} THEN 30 ELSE 31

\* The day number of the proleptic Gregorian date y-m-d (1970-01-01 is day 0).
DaysFromCivil(y, m, d) ==
    LET yy  == IF m <= 2 THEN y - 1 ELSE y
        era == yy \div 400
        yoe == yy - era * 400
        mp  == IF m > 2 THEN m - 3 ELSE m + 9
        doy == (153 * mp + 2) \div 5 + d - 1
        doe == yoe * 365 + yoe \div 4 - yoe \div 100 + doy
    IN  era * 146097 + doe - 719468

\* The proleptic Gregorian date of a day number, as [year, month, day].
CivilFromDays(z0) ==
    LET z   == z0 + 719468
        era == z \div 146097
        doe == z - era * 146097
        yoe == (doe - doe \div 1460 + doe \div 36524 - doe \div 146096) \div 365
        doy == doe - (365 * yoe + yoe \div 4 - yoe \div 100)
        mp  == (5 * doy + 2) \div 153
        d   == doy - (153 * mp + 2) \div 5 + 1
        m   == IF mp < 10 THEN mp + 3 ELSE mp - 9
        y   == yoe + era * 400 + (IF m <= 2 THEN 1 ELSE 0)
    IN  [year |-> y, month |-> m, day |-> d]

\* earliest_date.year
YearOf(t) == CivilFromDays(t[1]).year

MonthNames ==
    << "January", "February", "March", "April", "May", "June", "July",
       "August", "September", "October", "November", "December" >>

\* earliest_date.strftime('%B')
MonthNameOf(t) == MonthNames[CivilFromDays(t[1]).month]

\* datetime.datetime.combine(d, datetime.time.min, tzinfo=utc): the date of d at
\* 00:00:00, labelled UTC.
CombineMidnightUTC(days) == << days, 0 >>

\* datetime.datetime.today(): the local wall-clock time of the instant nowTs on a
\* machine whose local time is UTC + tz seconds; only its date is used.
TodayDays(nowTs, tz) == (nowTs + tz) \div 86400

(* ------------------------------------------------- strptime('%Y:%m:%d %H:%M:%S') *)

\* A character is a one-character string; a character outside ASCII, or a control
\* character that a string of this notation cannot hold, is the string "U+" and
\* its code point in hexadecimal ("U+0663" is ARABIC-INDIC DIGIT THREE).

\* The ASCII digits, by value.
Digits == << "0", "1", "2", "3", "4", "5", "6", "7", "8", "9" >>

\* The character class [lo-hi] of a regular expression, lo and hi ASCII digits.
DigitRange(lo, hi) == { Digits[v + 1] : v \in lo .. hi }

\* The characters \d matches in a str pattern: the decimal digits of Unicode
\* (category Nd), by the value int() gives them; DecimalDigits[v + 1] holds the
\* digits of value v.
DecimalDigits ==
    <<
       { "0", "U+0660", "U+06F0", "U+07C0", "U+0966", "U+09E6", "U+0A66",
         "U+0AE6", "U+0B66", "U+0BE6", "U+0C66", "U+0CE6", "U+0D66", "U+0DE6",
         "U+0E50", "U+0ED0", "U+0F20", "U+1040", "U+1090", "U+17E0", "U+1810",
         "U+1946", "U+19D0", "U+1A80", "U+1A90", "U+1B50", "U+1BB0", "U+1C40",
         "U+1C50", "U+A620", "U+A8D0", "U+A900", "U+A9D0", "U+A9F0", "U+AA50",
         "U+ABF0", "U+FF10", "U+104A0", "U+10D30", "U+11066", "U+110F0",
         "U+11136", "U+111D0", "U+112F0", "U+11450", "U+114D0", "U+11650",
         "U+116C0", "U+11730", "U+118E0", "U+11950", "U+11C50", "U+11D50",
         "U+11DA0", "U+16A60", "U+16AC0", "U+16B50", "U+1D7CE", "U+1D7D8",
         "U+1D7E2", "U+1D7EC", "U+1D7F6", "U+1E140", "U+1E2F0", "U+1E950",
         "U+1FBF0" },
       { "1", "U+0661", "U+06F1", "U+07C1", "U+0967", "U+09E7", "U+0A67",
         "U+0AE7", "U+0B67", "U+0BE7", "U+0C67", "U+0CE7", "U+0D67", "U+0DE7",
         "U+0E51", "U+0ED1", "U+0F21", "U+1041", "U+1091", "U+17E1", "U+1811",
         "U+1947", "U+19D1", "U+1A81", "U+1A91", "U+1B51", "U+1BB1", "U+1C41",
         "U+1C51", "U+A621", "U+A8D1", "U+A901", "U+A9D1", "U+A9F1", "U+AA51",
         "U+ABF1", "U+FF11", "U+104A1", "U+10D31", "U+11067", "U+110F1",
         "U+11137", "U+111D1", "U+112F1", "U+11451", "U+114D1", "U+11651",
         "U+116C1", "U+11731", "U+118E1", "U+11951", "U+11C51", "U+11D51",
         "U+11DA1", "U+16A61", "U+16AC1", "U+16B51", "U+1D7CF", "U+1D7D9",
         "U+1D7E3", "U+1D7ED", "U+1D7F7", "U+1E141", "U+1E2F1", "U+1E951",
         "U+1FBF1" },
       { "2", "U+0662", "U+06F2", "U+07C2", "U+0968", "U+09E8", "U+0A68",
         "U+0AE8", "U+0B68", "U+0BE8", "U+0C68", "U+0CE8", "U+0D68", "U+0DE8",
         "U+0E52", "U+0ED2", "U+0F22", "U+1042", "U+1092", "U+17E2", "U+1812",
         "U+1948", "U+19D2", "U+1A82", "U+1A92", "U+1B52", "U+1BB2", "U+1C42",
         "U+1C52", "U+A622", "U+A8D2", "U+A902", "U+A9D2", "U+A9F2", "U+AA52",
         "U+ABF2", "U+FF12", "U+104A2", "U+10D32", "U+11068", "U+110F2",
         "U+11138", "U+111D2", "U+112F2", "U+11452", "U+114D2", "U+11652",
         "U+116C2", "U+11732", "U+118E2", "U+11952", "U+11C52", "U+11D52",
         "U+11DA2", "U+16A62", "U+16AC2", "U+16B52", "U+1D7D0", "U+1D7DA",
         "U+1D7E4", "U+1D7EE", "U+1D7F8", "U+1E142", "U+1E2F2", "U+1E952",
         "U+1FBF2" },
       { "3", "U+0663", "U+06F3", "U+07C3", "U+0969", "U+09E9", "U+0A69",
         "U+0AE9", "U+0B69", "U+0BE9", "U+0C69", "U+0CE9", "U+0D69", "U+0DE9",
         "U+0E53", "U+0ED3", "U+0F23", "U+1043", "U+1093", "U+17E3", "U+1813",
         "U+1949", "U+19D3", "U+1A83", "U+1A93", "U+1B53", "U+1BB3", "U+1C43",
         "U+1C53", "U+A623", "U+A8D3", "U+A903", "U+A9D3", "U+A9F3", "U+AA53",
         "U+ABF3", "U+FF13", "U+104A3", "U+10D33", "U+11069", "U+110F3",
         "U+11139", "U+111D3", "U+112F3", "U+11453", "U+114D3", "U+11653",
         "U+116C3", "U+11733", "U+118E3", "U+11953", "U+11C53", "U+11D53",
         "U+11DA3", "U+16A63", "U+16AC3", "U+16B53", "U+1D7D1", "U+1D7DB",
         "U+1D7E5", "U+1D7EF", "U+1D7F9", "U+1E143", "U+1E2F3", "U+1E953",
         "U+1FBF3" },
       { "4", "U+0664", "U+06F4", "U+07C4", "U+096A", "U+09EA", "U+0A6A",
         "U+0AEA", "U+0B6A", "U+0BEA", "U+0C6A", "U+0CEA", "U+0D6A", "U+0DEA",
         "U+0E54", "U+0ED4", "U+0F24", "U+1044", "U+1094", "U+17E4", "U+1814",
         "U+194A", "U+19D4", "U+1A84", "U+1A94", "U+1B54", "U+1BB4", "U+1C44",
         "U+1C54", "U+A624", "U+A8D4", "U+A904", "U+A9D4", "U+A9F4", "U+AA54",
         "U+ABF4", "U+FF14", "U+104A4", "U+10D34", "U+1106A", "U+110F4",
         "U+1113A", "U+111D4", "U+112F4", "U+11454", "U+114D4", "U+11654",
         "U+116C4", "U+11734", "U+118E4", "U+11954", "U+11C54", "U+11D54",
         "U+11DA4", "U+16A64", "U+16AC4", "U+16B54", "U+1D7D2", "U+1D7DC",
         "U+1D7E6", "U+1D7F0", "U+1D7FA", "U+1E144", "U+1E2F4", "U+1E954",
         "U+1FBF4" },
       { "5", "U+0665", "U+06F5", "U+07C5", "U+096B", "U+09EB", "U+0A6B",
         "U+0AEB", "U+0B6B", "U+0BEB", "U+0C6B", "U+0CEB", "U+0D6B", "U+0DEB",
         "U+0E55", "U+0ED5", "U+0F25", "U+1045", "U+1095", "U+17E5", "U+1815",
         "U+194B", "U+19D5", "U+1A85", "U+1A95", "U+1B55", "U+1BB5", "U+1C45",
         "U+1C55", "U+A625", "U+A8D5", "U+A905", "U+A9D5", "U+A9F5", "U+AA55",
         "U+ABF5", "U+FF15", "U+104A5", "U+10D35", "U+1106B", "U+110F5",
         "U+1113B", "U+111D5", "U+112F5", "U+11455", "U+114D5", "U+11655",
         "U+116C5", "U+11735", "U+118E5", "U+11955", "U+11C55", "U+11D55",
         "U+11DA5", "U+16A65", "U+16AC5", "U+16B55", "U+1D7D3", "U+1D7DD",
         "U+1D7E7", "U+1D7F1", "U+1D7FB", "U+1E145", "U+1E2F5", "U+1E955",
         "U+1FBF5" },
       { "6", "U+0666", "U+06F6", "U+07C6", "U+096C", "U+09EC", "U+0A6C",
         "U+0AEC", "U+0B6C", "U+0BEC", "U+0C6C", "U+0CEC", "U+0D6C", "U+0DEC",
         "U+0E56", "U+0ED6", "U+0F26", "U+1046", "U+1096", "U+17E6", "U+1816",
         "U+194C", "U+19D6", "U+1A86", "U+1A96", "U+1B56", "U+1BB6", "U+1C46",
         "U+1C56", "U+A626", "U+A8D6", "U+A906", "U+A9D6", "U+A9F6", "U+AA56",
         "U+ABF6", "U+FF16", "U+104A6", "U+10D36", "U+1106C", "U+110F6",
         "U+1113C", "U+111D6", "U+112F6", "U+11456", "U+114D6", "U+11656",
         "U+116C6", "U+11736", "U+118E6", "U+11956", "U+11C56", "U+11D56",
         "U+11DA6", "U+16A66", "U+16AC6", "U+16B56", "U+1D7D4", "U+1D7DE",
         "U+1D7E8", "U+1D7F2", "U+1D7FC", "U+1E146", "U+1E2F6", "U+1E956",
         "U+1FBF6" },
       { "7", "U+0667", "U+06F7", "U+07C7", "U+096D", "U+09ED", "U+0A6D",
         "U+0AED", "U+0B6D", "U+0BED", "U+0C6D", "U+0CED", "U+0D6D", "U+0DED",
         "U+0E57", "U+0ED7", "U+0F27", "U+1047", "U+1097", "U+17E7", "U+1817",
         "U+194D", "U+19D7", "U+1A87", "U+1A97", "U+1B57", "U+1BB7", "U+1C47",
         "U+1C57", "U+A627", "U+A8D7", "U+A907", "U+A9D7", "U+A9F7", "U+AA57",
         "U+ABF7", "U+FF17", "U+104A7", "U+10D37", "U+1106D", "U+110F7",
         "U+1113D", "U+111D7", "U+112F7", "U+11457", "U+114D7", "U+11657",
         "U+116C7", "U+11737", "U+118E7", "U+11957", "U+11C57", "U+11D57",
         "U+11DA7", "U+16A67", "U+16AC7", "U+16B57", "U+1D7D5", "U+1D7DF",
         "U+1D7E9", "U+1D7F3", "U+1D7FD", "U+1E147", "U+1E2F7", "U+1E957",
         "U+1FBF7" },
       { "8", "U+0668", "U+06F8", "U+07C8", "U+096E", "U+09EE", "U+0A6E",
         "U+0AEE", "U+0B6E", "U+0BEE", "U+0C6E", "U+0CEE", "U+0D6E", "U+0DEE",
         "U+0E58", "U+0ED8", "U+0F28", "U+1048", "U+1098", "U+17E8", "U+1818",
         "U+194E", "U+19D8", "U+1A88", "U+1A98", "U+1B58", "U+1BB8", "U+1C48",
         "U+1C58", "U+A628", "U+A8D8", "U+A908", "U+A9D8", "U+A9F8", "U+AA58",
         "U+ABF8", "U+FF18", "U+104A8", "U+10D38", "U+1106E", "U+110F8",
         "U+1113E", "U+111D8", "U+112F8", "U+11458", "U+114D8", "U+11658",
         "U+116C8", "U+11738", "U+118E8", "U+11958", "U+11C58", "U+11D58",
         "U+11DA8", "U+16A68", "U+16AC8", "U+16B58", "U+1D7D6", "U+1D7E0",
         "U+1D7EA", "U+1D7F4", "U+1D7FE", "U+1E148", "U+1E2F8", "U+1E958",
         "U+1FBF8" },
       { "9", "U+0669", "U+06F9", "U+07C9", "U+096F", "U+09EF", "U+0A6F",
         "U+0AEF", "U+0B6F", "U+0BEF", "U+0C6F", "U+0CEF", "U+0D6F", "U+0DEF",
         "U+0E59", "U+0ED9", "U+0F29", "U+1049", "U+1099", "U+17E9", "U+1819",
         "U+194F", "U+19D9", "U+1A89", "U+1A99", "U+1B59", "U+1BB9", "U+1C49",
         "U+1C59", "U+A629", "U+A8D9", "U+A909", "U+A9D9", "U+A9F9", "U+AA59",
         "U+ABF9", "U+FF19", "U+104A9", "U+10D39", "U+1106F", "U+110F9",
         "U+1113F", "U+111D9", "U+112F9", "U+11459", "U+114D9", "U+11659",
         "U+116C9", "U+11739", "U+118E9", "U+11959", "U+11C59", "U+11D59",
         "U+11DA9", "U+16A69", "U+16AC9", "U+16B59", "U+1D7D7", "U+1D7E1",
         "U+1D7EB", "U+1D7F5", "U+1D7FF", "U+1E149", "U+1E2F9", "U+1E959",
         "U+1FBF9" }
    >>

\* \d
AnyDigit == UNION { DecimalDigits[v] : v \in 1 .. 10 }

IsDigit(c) == c \in AnyDigit

\* int(c) for a decimal digit c.
DigitVal(c) == (CHOOSE v \in 1 .. 10 : c \in DecimalDigits[v]) - 1

\* The characters \s matches in a str pattern: the whitespace of Unicode.
Whitespace ==
    { " ", "\t", "\n", "\r", "\f", "U+000B", "U+001C", "U+001D", "U+001E",
      "U+001F", "U+0085", "U+00A0", "U+1680", "U+2000", "U+2001", "U+2002",
      "U+2003", "U+2004", "U+2005", "U+2006", "U+2007", "U+2008", "U+2009",
      "U+200A", "U+2028", "U+2029", "U+202F", "U+205F", "U+3000" }

IsSpace(c) == c \in Whitespace

\* The character of s at position p, "" past the end.
At(s, p) == IF p >= 1 /\ p <= Len(s) THEN s[p] ELSE ""

NoMatch == [ok |-> FALSE, val |-> 0, next |-> 0]

\* Two characters at position p, the first of the class A, the second of B.
Two(s, p, A, B) == At(s, p) \in A /\ At(s, p + 1) \in B

\* The field matched by a two-character alternative at p: int() of both.
Field2(s, p) ==
    [ok |-> TRUE, val |-> 10 * DigitVal(At(s, p)) + DigitVal(At(s, p + 1)),
     next |-> p + 2]

\* The field matched by a one-character alternative at p.
Field1(s, p) == [ok |-> TRUE, val |-> DigitVal(At(s, p)), next |-> p + 1]

\* %m: 1[0-2]|0[1-9]|[1-9]
MonthField(s, p) ==
    IF Two(s, p, {"1"}, DigitRange(0, 2)) \/ Two(s, p, {"0"}, DigitRange(1, 9))
    THEN Field2(s, p)
    ELSE IF At(s, p) \in DigitRange(1, 9) THEN Field1(s, p)
    ELSE NoMatch

\* %d: 3[0-1]|[1-2]\d|0[1-9]|[1-9]| [1-9]
DayField(s, p) ==
    IF \/ Two(s, p, {"3"}, DigitRange(0, 1))
       \/ Two(s, p, DigitRange(1, 2), AnyDigit)
       \/ Two(s, p, {"0"}, DigitRange(1, 9))
    THEN Field2(s, p)
    ELSE IF At(s, p) \in DigitRange(1, 9) THEN Field1(s, p)
    ELSE IF Two(s, p, {" "}, DigitRange(1, 9))
    THEN [ok |-> TRUE, val |-> DigitVal(At(s, p + 1)), next |-> p + 2]
    ELSE NoMatch

\* %H: 2[0-3]|[0-1]\d|\d
HourField(s, p) ==
    IF Two(s, p, {"2"}, DigitRange(0, 3)) \/ Two(s, p, DigitRange(0, 1), AnyDigit)
    THEN Field2(s, p)
    ELSE IF IsDigit(At(s, p)) THEN Field1(s, p)
    ELSE NoMatch

\* %M: [0-5]\d|\d
MinuteField(s, p) ==
    IF Two(s, p, DigitRange(0, 5), AnyDigit) THEN Field2(s, p)
    ELSE IF IsDigit(At(s, p)) THEN Field1(s, p)
    ELSE NoMatch

\* %S: 6[0-1]|[0-5]\d|\d
SecondField(s, p) ==
    IF Two(s, p, {"6"}, DigitRange(0, 1)) \/ Two(s, p, DigitRange(0, 5), AnyDigit)
    THEN Field2(s, p)
    ELSE IF IsDigit(At(s, p)) THEN Field1(s, p)
    ELSE NoMatch

\* \s+ at position p: the position after the run of whitespace (p itself if
\* there is none).
RECURSIVE SkipSpaces(_, _)
SkipSpaces(s, p) == IF IsSpace(At(s, p)) THEN SkipSpaces(s, p + 1) ELSE p

\* A literal character c at position p.
Lit(s, p, c) == At(s, p) = c

\* %Y: \d\d\d\d
YearField(s) ==
    IF \A i \in 1 .. 4 : IsDigit(At(s, i))
    THEN [ok |-> TRUE,
          val |-> 1000 * DigitVal(s[1]) + 100 * DigitVal(s[2])
                    + 10 * DigitVal(s[3]) + DigitVal(s[4]),
          next |-> 5]
    ELSE NoMatch

NoDateParsed == [ok |-> FALSE, year |-> 0, month |-> 0, day |-> 0]

\* The end of the parse: the fields matched up to the end of the string, and the
\* values make a date and a time of day (the expression lets the seconds 60 and
\* 61 through, the datetime constructor does not).
StrptimeEnd(s, ye, mo, da, se) ==
    IF /\ se.ok /\ se.next = Len(s) + 1
       /\ ye.val >= 1 /\ da.val <= DaysInMonth(ye.val, mo.val) /\ se.val <= 59
    THEN [ok |-> TRUE, year |-> ye.val, month |-> mo.val, day |-> da.val]
    ELSE NoDateParsed

\* ':%S' after the minute mi.
StrptimeSecond(s, ye, mo, da, mi) ==
    IF mi.ok /\ Lit(s, mi.next, ":")
    THEN StrptimeEnd(s, ye, mo, da, SecondField(s, mi.next + 1))
    ELSE NoDateParsed

\* ':%M' after the hour ho.
StrptimeMinute(s, ye, mo, da, ho) ==
    IF ho.ok /\ Lit(s, ho.next, ":")
    THEN StrptimeSecond(s, ye, mo, da, MinuteField(s, ho.next + 1))
    ELSE NoDateParsed

\* ' %H' after the day da: whitespace, one character at least, then the hour.
StrptimeHour(s, ye, mo, da) ==
    IF da.ok /\ SkipSpaces(s, da.next) > da.next
    THEN StrptimeMinute(s, ye, mo, da, HourField(s, SkipSpaces(s, da.next)))
    ELSE NoDateParsed

\* ':%d' after the month mo.
StrptimeDay(s, ye, mo) ==
    IF mo.ok /\ Lit(s, mo.next, ":")
    THEN StrptimeHour(s, ye, mo, DayField(s, mo.next + 1))
    ELSE NoDateParsed

\* ':%m' after the year ye.
StrptimeMonth(s, ye) ==
    IF ye.ok /\ Lit(s, ye.next, ":")
    THEN StrptimeDay(s, ye, MonthField(s, ye.next + 1))
    ELSE NoDateParsed

\* datetime.datetime.strptime(data, '%Y:%m:%d %H:%M:%S'): [ok |-> TRUE] with the
\* date parsed, or [ok |-> FALSE] where Python raises ValueError.
Strptime(s) == StrptimeMonth(s, YearField(s))

(* ------------------------------------------------------------ the source tree *)

\* A source tree t.  Its directories are 0 .. NumDirs - 1, 0 being
\* starting_directory; every other directory d has a parent t.parent[d] and a name
\* t.dirname[d].  A file t.files[f] has a directory (dir) and a name.  A symbolic
\* link t.links[l] has a directory (dir), a name, and a directory it points to
\* (target).  t.order is the order in which the file system lists entries: its
\* i-th element is the position in Entries(t) of the entry listed i-th (the order
\* is the file system's own, ext4's being that of a hash of the names; it stays
\* the same while the tree is not changed).  A path is the sequence of the names from starting_directory down
\* (<< >> is starting_directory itself).  The path of starting_directory holds no
\* character that glob reads as a pattern, and image_ext holds no path separator.

\* The entries of the tree: of a file, of a directory, of a link.  An entry has
\* the directory that holds it (in), its name, its kind, and a number: the
\* file's, the directory's, or that of the directory the link points to.
FileEntry(t, f) ==
    [in |-> t.files[f].dir, name |-> t.files[f].name, kind |-> "file", id |-> f]

DirEntry(t, c) ==
    [in |-> t.parent[c], name |-> t.dirname[c], kind |-> "dir", id |-> c]

LinkEntry(t, l) ==
    [in |-> t.links[l].dir, name |-> t.links[l].name, kind |-> "link",
     id |-> t.links[l].target]

Entries(t) ==
    [f \in 1 .. Len(t.files) |-> FileEntry(t, f)]
    \o [c \in 1 .. Len(t.parent) |-> DirEntry(t, c)]
    \o [l \in 1 .. Len(t.links) |-> LinkEntry(t, l)]

\* The entries of the tree in the order ord of the file system.
Listed(t, ord) == [i \in 1 .. Len(ord) |-> Entries(t)[ord[i]]]

\* os.scandir(d): the entries of directory d, in the order the file system
\* lists them (glob and os.walk read the same one).
Scandir(t, d) == SelectSeq(Listed(t, t.order), LAMBDA e : e.in = d)

\* entry.is_dir(): a directory, or a link to one.
IsDir(e) == e.kind \in {"dir", "link"}

NoEntry == [in |-> 0, name |-> << >>, kind |-> "none", id |-> 0]

\* The entry of directory d with the given name (a directory holds no two
\* entries of one name).
EntryNamed(t, d, name) ==
    IF \E f \in DOMAIN t.files : t.files[f].dir = d /\ t.files[f].name = name
    THEN FileEntry(t, CHOOSE f \in DOMAIN t.files :
                          t.files[f].dir = d /\ t.files[f].name = name)
    ELSE IF \E c \in DOMAIN t.parent : t.parent[c] = d /\ t.dirname[c] = name
    THEN DirEntry(t, CHOOSE c \in DOMAIN t.parent :
                         t.parent[c] = d /\ t.dirname[c] = name)
    ELSE IF \E l \in DOMAIN t.links : t.links[l].dir = d /\ t.links[l].name = name
    THEN LinkEntry(t, CHOOSE l \in DOMAIN t.links :
                          t.links[l].dir = d /\ t.links[l].name = name)
    ELSE NoEntry

NoNode == [kind |-> "none", id |-> 0]

\* What a path names, links followed: a directory, a file, or nothing.
RECURSIVE StatFrom(_, _, _, _)
RECURSIVE StatEntry(_, _, _, _)
StatFrom(t, d, path, i) ==
    IF i > Len(path) THEN [kind |-> "dir", id |-> d]
    ELSE StatEntry(t, EntryNamed(t, d, path[i]), path, i)
StatEntry(t, e, path, i) ==
    IF e.kind = "none" THEN NoNode
    ELSE IF e.kind = "file"
    THEN (IF i = Len(path) THEN [kind |-> "file", id |-> e.id] ELSE NoNode)
    ELSE StatFrom(t, e.id, path, i + 1)

Stat(t, path) == StatFrom(t, 0, path, 1)

\* The number of the file a path names, 0 when it names no file.
FileAt(t, path) == IF Stat(t, path).kind = "file" THEN Stat(t, path).id ELSE 0

\* The listing of the directory a path names; empty when it names no directory
\* (scandir raises OSError, which glob and os.walk swallow).
Listdir(t, path) ==
    IF Stat(t, path).kind = "dir" THEN Scandir(t, Stat(t, path).id) ELSE << >>

(* ------------------------------------------------------------------ fnmatch *)

\* The printable ASCII characters, from code 32 (the blank) to 126 (the grave
\* accent, code 96, written as "U+0060").
Ascii ==
    << " ", "!", "\"", "#", "$", "%", "&", "'", "(", ")", "*", "+", ",", "-", ".",
       "/", "0", "1", "2", "3", "4", "5", "6", "7", "8", "9", ":", ";", "<", "=",
       ">", "?", "@", "A", "B", "C", "D", "E", "F", "G", "H", "I", "J", "K", "L",
       "M", "N", "O", "P", "Q", "R", "S", "T", "U", "V", "W", "X", "Y", "Z", "[",
       "\\", "]", "^", "_", "U+0060", "a", "b", "c", "d", "e", "f", "g", "h", "i", "j",
       "k", "l", "m", "n", "o", "p", "q", "r", "s", "t", "u", "v", "w", "x", "y",
       "z", "{", "|", "}", "~" >>

\* ord(c) of a printable ASCII character, by which a range of a character class
\* is ordered.  The names and extensions of the model are printable ASCII.
Ord(c) == 31 + (CHOOSE i \in 1 .. Len(Ascii) : Ascii[i] = c)

\* glob.has_magic: does the string hold one of * ? [
HasMagic(s) == \E i \in 1 .. Len(s) : s[i] \in {"*", "?", "["}

\* has_magic of a path: of one of its names.
HasMagicPath(path) == \E i \in 1 .. Len(path) : HasMagic(path[i])

\* For the '[' at position i of pat: where the search for the closing ']' starts
\* (after a leading '!', and after a ']' that comes first).
ClassStart(pat, i) == IF At(pat, i + 1) = "!" THEN i + 2 ELSE i + 1

ClassScan(pat, i) ==
    IF At(pat, ClassStart(pat, i)) = "]"
    THEN ClassStart(pat, i) + 1 ELSE ClassStart(pat, i)

\* The position of the ']' that closes the class opened at i, 0 if there is none
\* (the '[' is then an ordinary character).
ClassEnd(pat, i) ==
    IF \E j \in ClassScan(pat, i) .. Len(pat) : pat[j] = "]"
    THEN CHOOSE j \in ClassScan(pat, i) .. Len(pat) :
            /\ pat[j] = "]"
            /\ \A k \in ClassScan(pat, i) .. (j - 1) : pat[k] # "]"
    ELSE 0

\* Is c one of the characters pat[k .. e - 1] of a class lists?  x-y is a range
\* when the '-' is neither first nor last; a range whose ends are out of order
\* holds nothing.
RECURSIVE ClassHas(_, _, _, _)
ClassHas(pat, k, e, c) ==
    IF k >= e THEN FALSE
    ELSE IF k + 2 < e /\ pat[k + 1] = "-"
    THEN \/ (Ord(pat[k]) <= Ord(c) /\ Ord(c) <= Ord(pat[k + 2]))
         \/ ClassHas(pat, k + 3, e, c)
    ELSE pat[k] = c \/ ClassHas(pat, k + 1, e, c)

\* Does c match the class opened at i and closed at e?  [!...] is the complement.
ClassMatch(pat, i, e, c) ==
    IF At(pat, i + 1) = "!"
    THEN ~ClassHas(pat, i + 2, e, c)
    ELSE ClassHas(pat, i + 1, e, c)

\* fnmatch.fnmatchcase(name, pat), from position j of name and i of pat: '*' is
\* any run of characters, '?' any one character, '[...]' a class, any other
\* character itself.
RECURSIVE FnMatchFrom(_, _, _, _)
FnMatchFrom(name, j, pat, i) ==
    IF i > Len(pat) THEN j > Len(name)
    ELSE IF pat[i] = "*"
    THEN \/ FnMatchFrom(name, j, pat, i + 1)
         \/ (j <= Len(name) /\ FnMatchFrom(name, j + 1, pat, i))
    ELSE IF j > Len(name) THEN FALSE
    ELSE IF pat[i] = "?" THEN FnMatchFrom(name, j + 1, pat, i + 1)
    ELSE IF pat[i] = "[" /\ ClassEnd(pat, i) # 0
    THEN /\ ClassMatch(pat, i, ClassEnd(pat, i), name[j])
         /\ FnMatchFrom(name, j + 1, pat, ClassEnd(pat, i) + 1)
    ELSE name[j] = pat[i] /\ FnMatchFrom(name, j + 1, pat, i + 1)

FnMatch(name, pat) == FnMatchFrom(name, 1, pat, 1)

(* --------------------------------------------------------------------- glob *)

\* glob._ishidden
IsHidden(s) == At(s, 1) = "."

\* The names glob keeps of a listing for a pattern: those that match, without the
\* hidden ones unless the pattern itself starts with '.'.
GlobMatch(name, pattern) ==
    /\ IsHidden(pattern) \/ ~IsHidden(name)
    /\ FnMatch(name, pattern)

\* glob._glob1 on a listing: the names of the entries that match the pattern, of
\* the directories only when dironly.
RECURSIVE SelectMatching(_, _, _)
SelectMatching(entries, pattern, dironly) ==
    IF entries = << >> THEN << >>
    ELSE (IF (~dironly \/ IsDir(Head(entries)))
               /\ GlobMatch(Head(entries).name, pattern)
          THEN << Head(entries).name >> ELSE << >>)
         \o SelectMatching(Tail(entries), pattern, dironly)

\* glob._glob0: a name without magic, kept if the path exists.
Glob0(t, dirname, basename) ==
    IF Stat(t, Append(dirname, basename)).kind # "none"
    THEN << basename >> ELSE << >>

\* os.path.join(dirname, name) for each of the names.
JoinAll(dirname, names) == [i \in 1 .. Len(names) |-> Append(dirname, names[i])]

\* os.path.split(pathname)[0]
Front(pathname) == SubSeq(pathname, 1, Len(pathname) - 1)

\* glob._iglob(pathname) for a pathname with magic: the paths that exist and match
\* it.  Magic in the directory part is matched against the tree as well.
RECURSIVE IGlob(_, _, _)
RECURSIVE GlobInDirs(_, _, _, _)
IGlob(t, pathname, dironly) ==
    GlobInDirs(t,
               IF HasMagicPath(Front(pathname))
               THEN IGlob(t, Front(pathname), TRUE)
               ELSE << Front(pathname) >>,
               pathname[Len(pathname)], dironly)
GlobInDirs(t, dirs, basename, dironly) ==
    IF dirs = << >> THEN << >>
    ELSE JoinAll(Head(dirs),
                 IF HasMagic(basename)
                 THEN SelectMatching(Listdir(t, Head(dirs)), basename, dironly)
                 ELSE Glob0(t, Head(dirs), basename))
         \o GlobInDirs(t, Tail(dirs), basename, dironly)

\* pattern = f'*.{image_ext}'
Pattern(image_ext) == << "*", "." >> \o image_ext

\* glob.glob(os.path.join(directory, pattern))
Glob(t, directory, image_ext) == IGlob(t, Append(directory, Pattern(image_ext)), FALSE)

(* ------------------------------------------------------------------ os.walk *)

\* subdirList of os.walk for the directory dirName: the names of its entries that
\* are directories, links to directories included.
RECURSIVE DirNames(_)
DirNames(entries) ==
    IF entries = << >> THEN << >>
    ELSE (IF IsDir(Head(entries)) THEN << Head(entries).name >> ELSE << >>)
         \o DirNames(Tail(entries))

SubdirList(t, dirName) == DirNames(Listdir(t, dirName))

\* os.walk(top): top and every directory below it, top-down; a link to a
\* directory is listed in subdirList but not descended into.  Nothing when top is
\* no directory.
RECURSIVE Walk(_, _)
RECURSIVE WalkAll(_, _, _)
Walk(t, top) ==
    IF Stat(t, top).kind # "dir" THEN << >>
    ELSE << top >> \o WalkAll(t, top, Listdir(t, top))
WalkAll(t, top, entries) ==
    IF entries = << >> THEN << >>
    ELSE (IF Head(entries).kind = "dir"
          THEN Walk(t, Append(top, Head(entries).name)) ELSE << >>)
         \o WalkAll(t, top, Tail(entries))

(* -------------------------------------------------------------- find_images *)

\* find_images(directory, image_ext): what glob finds for the directory, then, for
\* every directory os.walk yields and every subdirectory of it, the result of
\* find_images on that subdirectory.
RECURSIVE find_images(_, _, _)
RECURSIVE FindInSubdirs(_, _, _, _)
RECURSIVE FindInWalk(_, _, _)
find_images(t, directory, image_ext) ==
    Glob(t, directory, image_ext) \o FindInWalk(t, Walk(t, directory), image_ext)
FindInWalk(t, walked, image_ext) ==
    IF walked = << >> THEN << >>
    ELSE FindInSubdirs(t, Head(walked), SubdirList(t, Head(walked)), image_ext)
         \o FindInWalk(t, Tail(walked), image_ext)
FindInSubdirs(t, dirName, subs, image_ext) ==
    IF subs = << >> THEN << >>
    ELSE find_images(t, Append(dirName, Head(subs)), image_ext)
         \o FindInSubdirs(t, dirName, Tail(subs), image_ext)

\* The directories find_images is called on, in call order: one path per call.
RECURSIVE Visited(_, _)
RECURSIVE VisitedInSubdirs(_, _, _)
RECURSIVE VisitedInWalk(_, _)
Visited(t, directory) == << directory >> \o VisitedInWalk(t, Walk(t, directory))
VisitedInWalk(t, walked) ==
    IF walked = << >> THEN << >>
    ELSE VisitedInSubdirs(t, Head(walked), SubdirList(t, Head(walked)))
         \o VisitedInWalk(t, Tail(walked))
VisitedInSubdirs(t, dirName, subs) ==
    IF subs = << >> THEN << >>
    ELSE Visited(t, Append(dirName, Head(subs)))
         \o VisitedInSubdirs(t, dirName, Tail(subs))

(* --------------------------------------------------------------- rename_image *)

\* PIL.ExifTags.TAGS, restricted to the tag ids that occur in the model.
TAGS == (306 :> "DateTime") @@ (36867 :> "DateTimeOriginal") @@ (271 :> "Make")

\* TAGS.get(tag_id, tag_id): the tag's name, or the numeric id itself when the id
\* has no name.
TagsGet(tag_id) ==
    IF tag_id \in DOMAIN TAGS
    THEN [isStr |-> TRUE, name |-> TAGS[tag_id]]
    ELSE [isStr |-> FALSE, name |-> "", id |-> tag_id]

\* `tag is not str`: an identity comparison of the tag (a string or a number) with
\* the type object str, which no tag is; true of every tag.
TagIsNotStr(tag) == TRUE

\* tag.lower()
Lower(name) ==
    CASE name = "DateTime" -> "datetime"
      [] name = "DateTimeOriginal" -> "datetimeoriginal"
      [] name = "Make" -> "make"
      [] OTHER -> name

\* The candidate a tag named 'datetime' contributes: the date parsed (p), or
\* today's date when strptime raised ValueError, at 00:00:00 UTC.
DateOrToday(p, nowTs, tz) ==
    CombineMidnightUTC(IF p.ok THEN DaysFromCivil(p.year, p.month, p.day)
                               ELSE TodayDays(nowTs, tz))

\* parsed_date for the value of a tag named 'datetime'.
ParsedDate(data, nowTs, tz) == DateOrToday(Strptime(data), nowTs, tz)

\* The loop over exifdata, from tag i on, with the running minimum.
RECURSIVE ExifLoop(_, _, _, _, _)
ExifLoop(exifdata, i, earliest_date, nowTs, tz) ==
    IF i > Len(exifdata) THEN earliest_date
    ELSE LET tag == TagsGet(exifdata[i].id)
         IN  IF TagIsNotStr(tag)
             THEN ExifLoop(exifdata, i + 1, earliest_date, nowTs, tz)
             ELSE IF Lower(tag.name) = "datetime"
             THEN ExifLoop(exifdata, i + 1,
                           MinDate(earliest_date,
                                   ParsedDate(exifdata[i].value, nowTs, tz)),
                           nowTs, tz)
             ELSE ExifLoop(exifdata, i + 1, earliest_date, nowTs, tz)

\* earliest_date of rename_image for the (readable) file f.
EarliestDate(f, nowTs, tz) ==
    LET ctime == FromTimestamp(f.ctime)
        mtime == FromTimestamp(f.mtime)
        earliest_date == MinDate(ctime, mtime)
    IN  IF Len(f.exif) > 0
        THEN ExifLoop(f.exif, 1, earliest_date, nowTs, tz)
        ELSE earliest_date

\* place_to_store, below storage_directory: year, month name, file name.
PlaceToStore(earliest_date, file_name) ==
    << YearOf(earliest_date), MonthNameOf(earliest_date), file_name >>

\* os.path.dirname(place_to_store)
Dirname(place) == << place[1], place[2] >>

\* os.path.basename(image_file)
Basename(image_file) == image_file[Len(image_file)]

\* os.makedirs(dir, exist_ok=True) on the file system fs, all of it done.
Makedirs(fs, dir) == [fs EXCEPT !.dirs = @ \cup { << dir[1] >>, dir }]

\* os.makedirs stopped by a PermissionError at its last mkdir: the year's
\* directory is there, the month's is not made.
MakedirsYearOnly(fs, dir) == [fs EXCEPT !.dirs = @ \cup { << dir[1] >> }]

\* The mode of a file that open(dst, 'wb') creates: 0o644 (0o666 under the usual
\* umask of 0o022).
DefaultMode == 420

\* Does the mode let the owner write (bit 0o200)?
Writable(mode) == (mode \div 128) % 2 = 1

\* Is there a file at the destination that its owner may not write?
Unwritable(fs, place) == place \in DOMAIN fs.stored /\ ~Writable(fs.mode[place])

\* shutil.copy, its copyfile step: the destination gets the content of the
\* source file (numbered image_file), replacing what was there; a destination
\* that was there keeps its mode, a new one gets the default mode; the source
\* stays.
CopyFile(fs, image_file, place) ==
    [fs EXCEPT
        !.stored = [p \in DOMAIN fs.stored \cup {place} |->
                       IF p = place THEN fs.src[image_file] ELSE fs.stored[p]],
        !.mode = [p \in DOMAIN fs.stored \cup {place} |->
                     IF p \in DOMAIN fs.stored THEN fs.mode[p] ELSE DefaultMode]]

\* shutil.copy, its copymode step: the destination gets the mode of the source.
CopyMode(fs, mode, place) == [fs EXCEPT !.mode[place] = mode]

\* shutil.copy(image_file, place_to_store), for the source file numbered
\* image_file of the given mode: copyfile, then copymode.
ShutilCopy(fs, image_file, mode, place) ==
    CopyMode(CopyFile(fs, image_file, place), mode, place)

\* What the operating system answers to the calls that write:
\*   ok            all succeed;
\*   mkdir_denied  os.makedirs is denied the first directory it has to make;
\*   mkdir_partial os.makedirs makes the year's directory (if it is not there)
\*                 and is denied the month's;
\*   copy_denied   shutil.copy is denied before it writes (copyfile);
\*   chmod_denied  shutil.copy writes the content and is denied the change of
\*                 the file mode after it (copymode).
\* Each denial is a PermissionError.  Whatever the answer, a user who is not the
\* superuser is denied the opening of a destination file that is there and that
\* its owner may not write (see Write).
EnvOutcomes == {"ok", "mkdir_denied", "mkdir_partial", "copy_denied", "chmod_denied"}

NoPlace == << 0, "", << >> >>

NoDate == << 0, 0 >>

\* Image.open opening whatever file it is given.
ImageOpen_Always(t, file) == file # 0

\* Image.open(image_file) returns an image, for the path of the file numbered
\* file (0: the path names no file): the path names a file, and the file holds an
\* image; otherwise it raises OSError (for a directory, IsADirectoryError).
ImageOpen(t, file) == file # 0 /\ t.files[file].image

\* What rename_image gives for a path that could not be opened.
Skipped(fs) ==
    [ret |-> 0, raised |-> FALSE, fs |-> fs, opened |-> FALSE,
     earliest |-> NoDate, place |-> NoPlace, error |-> "open"]

\* What rename_image gives for an image, its destination computed.
Outcome(ret, raised, fs, earliest_date, place_to_store, error) ==
    [ret |-> ret, raised |-> raised, fs |-> fs, opened |-> TRUE,
     earliest |-> earliest_date, place |-> place_to_store, error |-> error]

\* The calls that write, from os.makedirs on, as the operating system answers
\* them, for the source file numbered image_file of the given mode: os.makedirs
\* is outside the try block (a PermissionError escapes), shutil.copy is inside
\* it (a PermissionError returns 0).  copyfile opens the destination for writing:
\* a destination left without write permission by an earlier copy (copymode gave
\* it the mode of a read-only source) is not opened, unless the superuser runs
\* the program.
Write(image_file, mode, fs, env, superuser, earliest_date, place_to_store) ==
    IF env = "mkdir_denied" /\ << place_to_store[1] >> \notin fs.dirs
    THEN Outcome(0, TRUE, fs, earliest_date, place_to_store, "makedirs")
    ELSE IF env \in {"mkdir_denied", "mkdir_partial"}
              /\ Dirname(place_to_store) \notin fs.dirs
    THEN Outcome(0, TRUE, MakedirsYearOnly(fs, Dirname(place_to_store)),
                 earliest_date, place_to_store, "makedirs")
    ELSE IF env = "copy_denied"
    THEN Outcome(0, FALSE, Makedirs(fs, Dirname(place_to_store)), earliest_date,
                 place_to_store, "copy")
    ELSE IF ~superuser /\ Unwritable(fs, place_to_store)
    THEN Outcome(0, FALSE, Makedirs(fs, Dirname(place_to_store)), earliest_date,
                 place_to_store, "overwrite")
    ELSE IF env = "chmod_denied"
    THEN Outcome(0, FALSE,
                 CopyFile(Makedirs(fs, Dirname(place_to_store)), image_file,
                          place_to_store),
                 earliest_date, place_to_store, "chmod")
    ELSE Outcome(1, FALSE,
                 ShutilCopy(Makedirs(fs, Dirname(place_to_store)), image_file,
                            mode, place_to_store),
                 earliest_date, place_to_store, "")

\* The transfer with the calls that write made before dryrun is looked at.
Transfer_WriteFirst(image_file, mode, fs, dryrun, env, superuser, earliest_date, place_to_store) ==
    IF dryrun
    THEN Outcome(1, FALSE, Makedirs(fs, Dirname(place_to_store)), earliest_date,
                 place_to_store, "")
    ELSE Write(image_file, mode, fs, env, superuser, earliest_date, place_to_store)

\* The end of rename_image, from `if dryrun` on: nothing is written in a dry run.
Transfer(image_file, mode, fs, dryrun, env, superuser, earliest_date, place_to_store) ==
    IF dryrun
    THEN Outcome(1, FALSE, fs, earliest_date, place_to_store, "")
    ELSE Write(image_file, mode, fs, env, superuser, earliest_date, place_to_store)

\* rename_image from place_to_store on, for the image numbered image_file whose
\* path ends in file_name.
Resolve(file_name, image_file, mode, fs, dryrun, env, superuser, earliest_date) ==
    Transfer(image_file, mode, fs, dryrun, env, superuser, earliest_date,
             PlaceToStore(earliest_date, file_name))

\* rename_image for a path that names the file numbered file (0: no file) and
\* ends in file_name.
RenameFile(t, file, file_name, fs, dryrun, nowTs, tz, env, superuser) ==
    IF ~ImageOpen(t, file)
    THEN Skipped(fs)
    ELSE Resolve(file_name, file, t.files[file].mode, fs, dryrun, env, superuser,
                 EarliestDate(t.files[file], nowTs, tz))

\* rename_image(image_file, storage_directory, dryrun) for the path image_file:
\* the value returned, whether an exception escapes, and the file system
\* afterwards.
rename_image(t, image_file, fs, dryrun, nowTs, tz, env, superuser) ==
    RenameFile(t, FileAt(t, image_file), Basename(image_file), fs, dryrun, nowTs,
               tz, env, superuser)

(* ------------------------------------------------------------------- inputs *)

Jpg == << "j", "p", "g" >>

\* '[jp]pg'
ClassJpg == << "[", "j", "p", "]", "p", "g" >>

\* '*'
Star == << "*" >>

\* The extensions given with -f/--filetype.
ImageExts == { Jpg, ClassJpg, Star }

NameA == << "a", ".", "j", "p", "g" >>

NameB == << "b", ".", "j", "p", "g" >>

NameC == << "c", ".", "j", "p", "g" >>

NameD == << "d", ".", "p", "n", "g" >>

NameHidden == << ".", "h", ".", "j", "p", "g" >>

NameUpper == << "e", ".", "J", "P", "G" >>

\* "2019:11:02 10:00:00"
TagWellFormed ==
    << "2", "0", "1", "9", ":", "1", "1", ":", "0", "2", " ",
       "1", "0", ":", "0", "0", ":", "0", "0" >>

\* "2019-11-02 10:00:00"
TagMalformed ==
    << "2", "0", "1", "9", "-", "1", "1", "-", "0", "2", " ",
       "1", "0", ":", "0", "0", ":", "0", "0" >>

\* "Canon"
TagMake == << "C", "a", "n", "o", "n" >>

\* The files a source tree is made of: name, whether PIL opens the file as an
\* image, st_ctime and st_mtime in seconds, the permission bits of st_mode
\* (420 = 0o644, 292 = 0o444: read-only), and the tags getexif() yields.
\*   1614945600 = 2021-03-05 12:00:00 UTC    1600000000 = 2020-09-13 12:26:40 UTC
\*   1704067800 = 2024-01-01 00:10:00 UTC    1583020800 = 2020-03-01 00:00:00 UTC
\* Plain: no metadata.  Tagged: a well-formed DateTime earlier than both times.
\* Corrupt: not an image.  Malformed: a DateTime that does not parse.  Other: tags
\* none of which is DateTime, one of them without a name; read-only, and changed
\* (st_ctime) before it was last modified (st_mtime set by hand).
KindPlain ==
    [name |-> NameA, image |-> TRUE, ctime |-> 1614945600, mtime |-> 1614945600,
     mode |-> 420, exif |-> << >>]

KindTagged ==
    [name |-> NameB, image |-> TRUE, ctime |-> 1614945600, mtime |-> 1600000000,
     mode |-> 420,
     exif |-> << [id |-> 271, value |-> TagMake],
                 [id |-> 306, value |-> TagWellFormed] >>]

KindCorrupt ==
    [name |-> NameC, image |-> FALSE, ctime |-> 1614945600, mtime |-> 1614945600,
     mode |-> 420, exif |-> << >>]

KindMalformed ==
    [name |-> NameA, image |-> TRUE, ctime |-> 1704067800, mtime |-> 1704067800,
     mode |-> 420, exif |-> << [id |-> 306, value |-> TagMalformed] >>]

KindOther ==
    [name |-> NameB, image |-> TRUE, ctime |-> 1583020800, mtime |-> 1614945600,
     mode |-> 292,
     exif |-> << [id |-> 59999, value |-> TagWellFormed],
                 [id |-> 36867, value |-> TagWellFormed] >>]

KindPng ==
    [name |-> NameD, image |-> TRUE, ctime |-> 1614945600, mtime |-> 1614945600,
     mode |-> 420, exif |-> << >>]

KindHidden ==
    [name |-> NameHidden, image |-> TRUE, ctime |-> 1614945600,
     mtime |-> 1614945600, mode |-> 420, exif |-> << >>]

KindUpper ==
    [name |-> NameUpper, image |-> TRUE, ctime |-> 1614945600,
     mtime |-> 1614945600, mode |-> 420, exif |-> << >>]

\* The files of the trees the driver is run on.
DriverKinds == << KindPlain, KindTagged, KindCorrupt, KindMalformed, KindOther >>

\* The files of the trees find_images is applied to.
LocatorKinds == << KindPlain, KindPng, KindHidden, KindUpper >>

\* The names of directories: the plain name of directory d ('d1', 'd2', ...), two
\* names that glob reads as patterns ('d[1]', 'd*'), and one that ends like an
\* image ('x.jpg').
PlainName(d) == << "d", Digits[d + 1] >>

NameDClass == << "d", "[", "1", "]" >>

NameDStar == << "d", "*" >>

NameXJpg == << "x", ".", "j", "p", "g" >>

LocatorDirNames == { NameDClass, NameDStar, NameXJpg }

DriverDirNames == { NameDClass, NameXJpg }

\* The name of a symbolic link.
NameLn == << "l", "n" >>

\* The instants at which the program is started: the readings of the system
\* clock, one per run.
\*   1704069000 = 2024-01-01 00:30:00 UTC    1707566400 = 2024-02-10 12:00:00 UTC
Clock == { 1704069000, 1707566400 }

ClockStart == CHOOSE n \in Clock : \A m \in Clock : n <= m

\* The offsets of the machine's local time from UTC, in seconds.
TzOffsets == { 0, -18000 }

\* A file of the tree: a kind of file in a directory.
FileIn(kind, d) ==
    [name |-> kind.name, image |-> kind.image, ctime |-> kind.ctime,
     mtime |-> kind.mtime, mode |-> kind.mode, exif |-> kind.exif, dir |-> d]

\* The directories reached from those of S by going down one step, into a
\* subdirectory or through a link.
Below(t, S) ==
    S \cup { c \in DOMAIN t.parent : t.parent[c] \in S }
      \cup { t.links[l].target : l \in { k \in DOMAIN t.links : t.links[k].dir \in S } }

RECURSIVE Reach(_, _, _)
Reach(t, S, n) == IF n = 0 THEN S ELSE Reach(t, Below(t, S), n - 1)

\* No link leads back to the directory that holds it: the tree, links followed,
\* has no cycle.
Acyclic(t) ==
    \A l \in DOMAIN t.links :
        t.links[l].dir \notin Reach(t, {t.links[l].target}, NumDirs)

\* No directory holds two entries of one name.
DistinctNames(t) ==
    \A i, j \in 1 .. Len(Entries(t)) :
        (i < j /\ Entries(t)[i].in = Entries(t)[j].in)
        => Entries(t)[i].name # Entries(t)[j].name

\* The ways to nest the directories: every directory but the root has a parent
\* numbered below it.
Nestings ==
    { p \in [1 .. (NumDirs - 1) -> Dirs] : \A d \in 1 .. (NumDirs - 1) : p[d] < d }

\* The ways to name the directories: directory d has its plain name or one of
\* the given names.
Namings(names) ==
    { nm \in [1 .. (NumDirs - 1) ->
                 names \cup { PlainName(d) : d \in 1 .. (NumDirs - 1) }] :
        \A d \in 1 .. (NumDirs - 1) : nm[d] \in names \cup { PlainName(d) } }

\* The place of a file in the numbering of the files: by directory, then by its
\* kind's place in the sequence kinds.
Rank(kinds, file) ==
    file.dir * Len(kinds)
    + (CHOOSE k \in DOMAIN kinds : FileIn(kinds[k], file.dir) = file)

\* The ways to place files of the given kinds in the directories of D.  The
\* files are numbered by rank: the numbers carry no order of listing (t.order
\* does), so one numbering of each set of files is enough.
Placings(kinds, D) ==
    { fl \in [FileIds -> { FileIn(kinds[k], d) : k \in DOMAIN kinds, d \in D }] :
        \A f, g \in FileIds : f < g => Rank(kinds, fl[f]) < Rank(kinds, fl[g]) }

\* The sequences of at most n links, numbered directory by directory.
LinkSeqs(n) ==
    { ls \in UNION { [1 .. k -> [dir : Dirs, name : {NameLn}, target : Dirs]] :
                       k \in 0 .. n } :
        \A l, m \in DOMAIN ls : l < m => ls[l].dir <= ls[m].dir }

\* The sequences that hold every element of S once.
RECURSIVE Arrangements(_)
Arrangements(S) ==
    IF S = {} THEN { << >> }
    ELSE UNION { { << x >> \o p : p \in Arrangements(S \ {x}) } : x \in S }

\* The orders in which a file system may list the entries of the directories
\* d, d + 1, ... of t: every order of the entries of each directory, the
\* directories one after the other.
RECURSIVE OrdersFrom(_, _)
OrdersFrom(t, d) ==
    IF d > NumDirs - 1 THEN { << >> }
    ELSE { p \o q :
             p \in Arrangements({ i \in DOMAIN Entries(t) : Entries(t)[i].in = d }),
             q \in OrdersFrom(t, d + 1) }

\* The tree t listed in the order ord.
WithOrder(t, ord) ==
    [parent |-> t.parent, dirname |-> t.dirname, files |-> t.files,
     links |-> t.links, order |-> ord]

\* The source trees of the given nestings, namings, files and links in which no
\* directory holds two entries of one name and no link closes a cycle, each with
\* every listing of every directory.
Trees(nestings, namings, placings, linkings) ==
    UNION { { WithOrder(t, ord) : ord \in OrdersFrom(t, 0) } :
              t \in { u \in [parent : nestings, dirname : namings,
                              files : placings, links : linkings] :
                        DistinctNames(u) /\ Acyclic(u) } }

\* The trees the driver is run on: the directories one in the other, the first
\* under any of the names, the others plainly named; the files in the root and
\* in the first directory; no links.
DriverTrees ==
    Trees({ p \in Nestings : \A d \in 1 .. (NumDirs - 1) : p[d] = d - 1 },
          { nm \in Namings(DriverDirNames) :
              \A d \in 2 .. (NumDirs - 1) : nm[d] = PlainName(d) },
          Placings(DriverKinds, {0, 1}), LinkSeqs(0))

(* -------------------------------------------------------------------- state *)

VARIABLES
    tree,           \* the source tree under starting_directory
    image_ext,      \* args.filetype
    dryrun,         \* args.dryrun
    tz,             \* the machine's offset from UTC
    superuser,      \* the program is run by the superuser
    nowTs,          \* the system clock
    fs,             \* the files: the source files and the storage directory
    pc,             \* where the driver is: "start", "loop", "done", "aborted"
    found_images,   \* the list find_images returned
    idx,            \* the position in found_images of the next image
    tot_moved,      \* the success tally
    results,        \* what rename_image did for each image processed so far
    safe_note,      \* the summary says the source tree is safe to delete
    run,            \* the number of the current run
    prev_results    \* results of the run before

vars ==
    << tree, image_ext, dryrun, tz, superuser, nowTs, fs, pc, found_images, idx, tot_moved,
       results, safe_note, run, prev_results >>

inputs == << tree, image_ext, dryrun, tz, superuser >>

\* The file system before the first run: every source file holds its own content
\* (the file's number), the storage directory is empty.  fs.dirs holds the
\* directories below storage_directory, fs.stored the content of the files below
\* it and fs.mode their permission bits, by path.
InitialFs ==
    [src |-> [f \in FileIds |-> f], dirs |-> {}, stored |-> << >>, mode |-> << >>]

\* The state before the program starts, on the source tree t.
Start(t) ==
    /\ tree = t
    /\ nowTs = ClockStart
    /\ fs = InitialFs
    /\ pc = "start"
    /\ found_images = << >>
    /\ idx = 1
    /\ tot_moved = 0
    /\ results = << >>
    /\ safe_note = FALSE
    /\ run = 1
    /\ prev_results = << >>

Init ==
    /\ \E t \in DriverTrees : Start(t)
    /\ image_ext = Jpg
    /\ dryrun \in BOOLEAN
    /\ tz \in TzOffsets
    /\ superuser \in BOOLEAN

\* The program starts and calls
\* found_images = find_images(args.starting_directory, args.filetype); tot_moved = 0
FindImages ==
    /\ pc = "start"
    /\ found_images' = find_images(tree, << >>, image_ext)
    /\ idx' = 1
    /\ tot_moved' = 0
    /\ pc' = "loop"
    /\ UNCHANGED << inputs, nowTs, fs, results, safe_note, run, prev_results >>

\* num_moved = rename_image(...); tot_moved += num_moved, for the outcome r of
\* rename_image; an exception that escapes rename_image ends the program.
LoopBody(r) ==
    /\ fs' = r.fs
    /\ results' = Append(results,
                         [file |-> FileAt(tree, found_images[idx]), ret |-> r.ret,
                          opened |-> r.opened, place |-> r.place,
                          earliest |-> r.earliest, error |-> r.error])
    /\ IF r.raised
       THEN /\ pc' = "aborted"
            /\ UNCHANGED << idx, tot_moved >>
       ELSE /\ pc' = "loop"
            /\ idx' = idx + 1
            /\ tot_moved' = tot_moved + r.ret

\* One iteration of the loop over found_images, on the next image.  The
\* superuser is denied nothing.
ProcessImage ==
    /\ pc = "loop"
    /\ idx <= Len(found_images)
    /\ \E env \in EnvOutcomes :
        /\ superuser => env = "ok"
        /\ LoopBody(rename_image(tree, found_images[idx], fs, dryrun, nowTs, tz,
                                 env, superuser))
    /\ UNCHANGED << inputs, nowTs, found_images, safe_note, run, prev_results >>

\* After the loop: the summary, with the note when the tally equals the number of
\* images found.
Summary ==
    /\ pc = "loop"
    /\ idx > Len(found_images)
    /\ safe_note' = (tot_moved = Len(found_images))
    /\ pc' = "done"
    /\ UNCHANGED << inputs, nowTs, fs, found_images, idx, tot_moved, results, run,
                    prev_results >>

\* The program is run again with the same arguments, at a time of the clock not
\* before the last one (a run is short: every file is processed on the day the
\* program started).
Rerun ==
    /\ pc = "done"
    /\ run < MaxRuns
    /\ \E n \in Clock : n >= nowTs /\ nowTs' = n
    /\ run' = run + 1
    /\ prev_results' = results
    /\ results' = << >>
    /\ found_images' = << >>
    /\ idx' = 1
    /\ tot_moved' = 0
    /\ safe_note' = FALSE
    /\ pc' = "start"
    /\ UNCHANGED << inputs, fs >>

\* One run of the program.
Next == FindImages \/ ProcessImage \/ Summary

Spec == Init /\ [][Next]_vars

\* Runs with --dryrun, one after the other.
InitDryRuns ==
    /\ \E t \in DriverTrees : Start(t)
    /\ image_ext = Jpg
    /\ dryrun = TRUE
    /\ tz \in TzOffsets
    /\ superuser = FALSE

NextDryRuns == FindImages \/ ProcessImage \/ Summary \/ Rerun

SpecDryRuns == InitDryRuns /\ [][NextDryRuns]_vars

\* find_images alone, on trees of every nesting, with at most one directory
\* under a name that glob reads as a pattern or that ends like an image, with
\* links, in every order of listing, and on every extension of ImageExts.
InitLocator ==
    /\ \E t \in Trees(Nestings,
                       { nm \in Namings(LocatorDirNames) :
                           \A c, d \in 1 .. (NumDirs - 1) :
                               (nm[c] # PlainName(c) /\ nm[d] # PlainName(d))
                               => c = d },
                       Placings(LocatorKinds, Dirs), LinkSeqs(NumLinks)) : Start(t)
    /\ image_ext \in ImageExts
    /\ dryrun = FALSE
    /\ tz = 0
    /\ superuser = FALSE

NextLocator == FindImages

SpecLocator == InitLocator /\ [][NextLocator]_vars

(* ------------------------------------------------------------------- claims *)

\* The calls of rename_image of this run that opened an image.
Opened == { i \in 1 .. Len(results) : results[i].opened }

\* The file the i-th call of rename_image of this run was given.
FileOf(i) == tree.files[results[i].file]

\* The positions in the metadata of f of the tags named 'datetime'.
DatetimeTags(f) ==
    { k \in 1 .. Len(f.exif) :
        f.exif[k].id \in DOMAIN TAGS /\ Lower(TAGS[f.exif[k].id]) = "datetime" }

\* The year and the month name of a day number, from the calendar alone.
YearMonth(days) ==
    LET c == CivilFromDays(days) IN << c.year, MonthNames[c.month] >>

\* Is 00:00:00 UTC of the day earlier than the instant ts (in seconds)?
EarlierThan(day, ts) == day < ts \div 86400 \/ (day = ts \div 86400 /\ ts % 86400 > 0)

\* C1: a readable image with a well-formed 'datetime' tag whose date is earlier
\* than the file's creation time and its modification time is placed in
\* <year of the tag's date>/<month name of the tag's date>/<basename>.
C1_TagDateWins ==
    \A i \in Opened :
        LET f == FileOf(i) IN
        \A k \in DatetimeTags(f) :
            LET p == Strptime(f.exif[k].value)
                tagDay == DaysFromCivil(p.year, p.month, p.day)
            IN  (/\ p.ok
                 /\ EarlierThan(tagDay, f.ctime)
                 /\ EarlierThan(tagDay, f.mtime))
                => results[i].place = YearMonth(tagDay) \o << f.name >>

\* C2: a readable image with no 'datetime' tag is placed in
\* <year>/<month name>/<basename> of the earlier of its creation time and its
\* modification time, as UTC instants.
C2_FilesystemDateOnly ==
    \A i \in Opened :
        LET f == FileOf(i)
            e == IF f.ctime <= f.mtime THEN f.ctime ELSE f.mtime
        IN  DatetimeTags(f) = {}
            => /\ results[i].earliest = << e \div 86400, e % 86400 >>
               /\ results[i].place = YearMonth(e \div 86400) \o << f.name >>

\* C2's case: an image without metadata, created and modified on 2021-03-05, has
\* been placed in 2021/March, and an image whose tags are not 'datetime' tags,
\* modified on 2020-03-01 and created later, in 2020/March.
C2_Witness ==
    /\ \E i \in Opened :
          /\ FileOf(i) = FileIn(KindPlain, FileOf(i).dir)
          /\ results[i].place = << 2021, "March", NameA >>
    /\ \E i \in Opened :
          /\ FileOf(i) = FileIn(KindOther, FileOf(i).dir)
          /\ results[i].place = << 2020, "March", NameB >>

\* C8: a readable image with a 'datetime' tag that does not parse does not make
\* rename_image raise, and is placed in the year and month of the earliest of its
\* creation time, its modification time and the current system date at 00:00 UTC.
C8_MalformedTagUsesToday ==
    \A i \in Opened :
        LET f == FileOf(i)
            e == IF f.ctime <= f.mtime THEN f.ctime ELSE f.mtime
            today == TodayDays(nowTs, tz)
            day == IF today <= e \div 86400 THEN today ELSE e \div 86400
        IN  (/\ DatetimeTags(f) # {}
             /\ \A k \in DatetimeTags(f) : ~Strptime(f.exif[k].value).ok)
            => results[i].place = YearMonth(day) \o << f.name >>

\* The files of the tree whose names match *.<image_ext>.
Matching == { f \in FileIds : GlobMatch(tree.files[f].name, Pattern(image_ext)) }

\* How many of the paths of the sequence name the node.
Times(paths, node) ==
    Cardinality({ i \in 1 .. Len(paths) : Stat(tree, paths[i]) = node })

\* C3: find_images visits no directory more than once, and every matching file
\* of the tree is in the list exactly once: the list is as long as the number of
\* matching files.
C3_EachFileOnce ==
    pc = "loop" =>
        /\ \A d \in Dirs : Times(Visited(tree, << >>), [kind |-> "dir", id |-> d]) <= 1
        /\ \A f \in Matching : Times(found_images, [kind |-> "file", id |-> f]) = 1
        /\ Len(found_images) = Cardinality(Matching)

\* C4: the list find_images returns holds every file of the tree, at any depth,
\* whose name matches *.<image_ext>, and nothing whose name does not match; it is
\* empty when no file of the tree matches.
C4_ExhaustiveAndFiltered ==
    pc = "loop" =>
        /\ \A f \in Matching : Times(found_images, [kind |-> "file", id |-> f]) >= 1
        /\ \A i \in 1 .. Len(found_images) :
              GlobMatch(Basename(found_images[i]), Pattern(image_ext))
        /\ Matching = {} => found_images = << >>

\* C5: a permission failure while rename_image creates the destination
\* directories or copies the file makes rename_image return 0 for that file, and
\* the run never ends before the summary.
C5_PermissionFailureNonFatal ==
    /\ pc # "aborted"
    /\ \A i \in 1 .. Len(results) :
          results[i].error \in {"makedirs", "copy", "chmod", "overwrite"}
          => results[i].ret = 0

\* C6: the call of rename_image on a path that cannot be opened as an image (a
\* file that holds no image, or a directory) returns 0, leaves the source files
\* and the storage directory as they were, adds nothing to the tally, and the
\* driver goes on with the next path.
C6_UnreadableSkipped ==
    [][ (/\ pc = "loop"
         /\ idx <= Len(found_images)
         /\ \/ FileAt(tree, found_images[idx]) = 0
            \/ ~tree.files[FileAt(tree, found_images[idx])].image)
        => (/\ fs' = fs
            /\ tot_moved' = tot_moved
            /\ results'[idx].ret = 0
            /\ pc' = "loop"
            /\ idx' = idx + 1) ]_vars

\* C6's case: in a run that copies, a file that is not an image has been
\* skipped and an image after it has been copied.
C6_Witness ==
    /\ ~dryrun
    /\ \E i, j \in 1 .. Len(results) :
          /\ i < j
          /\ results[i].file # 0 /\ ~FileOf(i).image /\ results[i].ret = 0
          /\ results[j].file # 0 /\ FileOf(j).image /\ results[j].ret = 1
          /\ tot_moved = 1

\* The destinations a run reported, file by file.
Reported(rs) == [i \in 1 .. Len(rs) |-> << rs[i].file, rs[i].place >>]

\* C7: with dryrun set, the source files and the storage directory stay as they
\* were before the first run, every readable image returns 1, and a second dry
\* run reports the destinations of the first, file by file.
C7_DryRunChangesNothing ==
    dryrun =>
        /\ fs = InitialFs
        /\ \A i \in 1 .. Len(results) :
              (results[i].file # 0 /\ FileOf(i).image) => results[i].ret = 1
        /\ (run >= 2 /\ pc = "done") => Reported(results) = Reported(prev_results)

\* C7's case: a second dry run, started on a later day than the first, has ended,
\* and both reported a destination for an image with a 'datetime' tag that does
\* not parse.
C7_Witness ==
    /\ dryrun /\ run = 2 /\ pc = "done"
    /\ nowTs # ClockStart
    /\ \E i \in Opened :
          /\ FileOf(i) = FileIn(KindMalformed, FileOf(i).dir)
          /\ results[i].ret = 1
          /\ prev_results[i].ret = 1

\* Has the operating system, of its own, denied the i-th call something (a
\* directory, the destination, the change of mode)?
Denied(i) == results[i].error \in {"makedirs", "copy", "chmod"}

\* C9: in a run that copies, when two distinct source files have the same
\* destination path and the operating system denies neither call of its own,
\* no error is raised and both calls return 1; both source files still hold
\* their content, and if no call after them had the same destination, the
\* destination holds the content of the one processed last.
C9_LastCopyWins ==
    ~dryrun =>
        \A i, j \in Opened :
            (/\ i < j
             /\ ~Denied(i) /\ ~Denied(j)
             /\ results[i].file # results[j].file
             /\ results[i].place = results[j].place)
            => /\ results[i].error = "" /\ results[j].error = ""
               /\ results[i].ret = 1 /\ results[j].ret = 1
               /\ fs.src[results[i].file] = InitialFs.src[results[i].file]
               /\ fs.src[results[j].file] = InitialFs.src[results[j].file]
               /\ (\A k \in (j + 1) .. Len(results) :
                      results[k].place # results[j].place)
                  => /\ results[j].place \in DOMAIN fs.stored
                     /\ fs.stored[results[j].place] = InitialFs.src[results[j].file]

\* C10: when the summary carries the note that all images were copied and the
\* source tree is safe to delete, the content of every file find_images returned
\* is the content of some file under the storage directory.
C10_SafeNoteMeansStored ==
    (pc = "done" /\ safe_note) =>
        \A i \in 1 .. Len(found_images) :
            FileAt(tree, found_images[i]) # 0
            => \E p \in DOMAIN fs.stored :
                  fs.stored[p] = InitialFs.src[FileAt(tree, found_images[i])]

====
